---- MODULE Spec2Model ----
(***************************************************************************)
(* Model of src/components/goals/GoalCard.tsx: the GoalCard component.     *)
(*                                                                         *)
(* The component is a function of its props (goal, onPress), of the wall   *)
(* clock sampled at render time and of two local useState flags.  The      *)
(* model keeps the props, the sampled clock and the two flags as state,    *)
(* plus the tree committed by the last render (view) and the calls the     *)
(* last handled event made to the outside (emitted).                       *)
(*                                                                         *)
(* Time is counted in seconds (Date.getTime() counts milliseconds; every   *)
(* instant of the model is a whole number of seconds, so that a span of    *)
(* sixty days stays inside TLC's integers).  Numbers the code computes     *)
(* with "/" are exact fractions <<numerator, denominator>>.                *)
(* An optional value is a sequence of length at most one: <<>> is          *)
(* undefined, <<v>> is the value v.                                        *)
(***************************************************************************)
EXTENDS Integers, Sequences, FiniteSets, TLC

(***************************************************************************)
(* Bounds and input domains                                                *)
(***************************************************************************)
MaxPlans == 2

None == <<>>

Some(v) == <<v>>

Statuses == {"configuration", "in_progress", "completed", "paused"}

GoalIds == {"g1", "g2"}

PendingPayments == {None, Some(0), Some(100)}

Amounts == {1, 1200}

Progresses == {50, 100, 120}

PlanIds == {"p1", "p2"}

Plans == { [id |-> "p1", monthlyContribution |-> 100],
           [id |-> "p1", monthlyContribution |-> 250],
           [id |-> "p2", monthlyContribution |-> 100] }

SelectedPlans == {None} \cup {Some(p) : p \in PlanIds}

PlanLists == {None} \cup
             { Some(s) : s \in UNION { [1..n -> Plans] : n \in 0..MaxPlans } }

\* 1000 * 60 * 60 * 24 milliseconds, in seconds
DayTicks == 60 * 60 * 24

BaseDate == 100 * DayTicks

TargetDates == {BaseDate, BaseDate + 30 * DayTicks}

NowTimes == { BaseDate - 30 * DayTicks,
              BaseDate - 1,
              BaseDate,
              BaseDate + 1,
              BaseDate + DayTicks - 1,
              BaseDate + DayTicks,
              BaseDate + 10 * DayTicks }

Goals == [ id : GoalIds,
           targetDate : TargetDates,
           amount : Amounts,
           progress : Progresses,
           status : Statuses,
           pendingPayment : PendingPayments,
           plans : PlanLists,
           selectedPlan : SelectedPlans ]

\* the goals of the event specification: the fields no handler reads are fixed
EventGoals == { g \in Goals : /\ g.amount = 1200
                              /\ g.progress = 50
                              /\ g.targetDate = BaseDate
                              /\ g.plans = Some(<<[id |-> "p1", monthlyContribution |-> 100]>>)
                              /\ g.selectedPlan \in {None, Some("p1")} }

VARIABLES goal, onPress, now, isPlanModalVisible, isPaymentModalVisible,
          view, lastEvent, emitted

vars == <<goal, onPress, now, isPlanModalVisible, isPaymentModalVisible,
          view, lastEvent, emitted>>

(***************************************************************************)
(* Exact fractions                                                         *)
(***************************************************************************)
Abs(x) == IF x < 0 THEN -x ELSE x

RECURSIVE GCD(_, _)
GCD(a, b) == IF b = 0 THEN a ELSE GCD(b, a % b)

\* the fraction n/d in lowest terms with a positive denominator (d # 0)
Frac(n, d) ==
    LET g == GCD(Abs(n), Abs(d))
        s == IF d < 0 THEN -1 ELSE 1
    IN  <<(s * n) \div g, (s * d) \div g>>

FracInt(n) == <<n, 1>>

FracSub(x, y) == Frac(x[1] * y[2] - y[1] * x[2], x[2] * y[2])

FracMul(x, y) == Frac(x[1] * y[1], x[2] * y[2])

\* x / y for y # 0
FracDiv(x, y) == Frac(x[1] * y[2], x[2] * y[1])

FracPositive(x) == x[1] > 0

\* Math.ceil(a / b) for b > 0
Ceil(a, b) == -((-a) \div b)

\* Number.prototype.toFixed(0): the nearest integer, a tie taking the larger
\* magnitude; the sign is put back in front
toFixed0(x) ==
    LET m == (2 * Abs(x[1]) + x[2]) \div (2 * x[2])
    IN  IF x[1] < 0 THEN -m ELSE m

(***************************************************************************)
(* The render function                                                     *)
(***************************************************************************)
\* value && value > 0 on an optional number
PositiveAmount(p) == p # None /\ p[1] # 0 /\ p[1] > 0

\* !value || value <= 0 on an optional number
NoPositiveAmount(p) == (p = None \/ p[1] = 0) \/ p[1] <= 0

\* variant: the days are rounded down instead of up
diffDays_Floor(g, t) == (g.targetDate - t) \div DayTicks

diffDays(g, t) == Ceil(g.targetDate - t, DayTicks)

monthsRemaining(g, t) == Frac(diffDays(g, t), 30)

amountRemaining(g) ==
    FracMul(FracInt(g.amount), FracSub(FracInt(1), Frac(g.progress, 100)))

\* variant: the remaining amount is spread over the days, not the months
monthlySavingsNeeded_PerDay(g, t) ==
    IF FracPositive(monthsRemaining(g, t))
    THEN FracDiv(amountRemaining(g), FracInt(diffDays(g, t)))
    ELSE FracInt(0)

monthlySavingsNeeded(g, t) ==
    IF FracPositive(monthsRemaining(g, t))
    THEN FracDiv(amountRemaining(g), monthsRemaining(g, t))
    ELSE FracInt(0)

RECURSIVE FindFrom(_, _, _)
FindFrom(s, i, key) ==
    IF i > Len(s) THEN None
    ELSE IF Some(s[i].id) = key THEN Some(s[i])
    ELSE FindFrom(s, i + 1, key)

\* variant: the first plan stands in when no plan matches
selectedPlan_FallbackFirst(g) ==
    IF g.plans = None THEN None
    ELSE IF FindFrom(g.plans[1], 1, g.selectedPlan) = None /\ Len(g.plans[1]) > 0
    THEN Some(g.plans[1][1])
    ELSE FindFrom(g.plans[1], 1, g.selectedPlan)

\* goal.plans?.find(plan => plan.id === goal.selectedPlan)
selectedPlan(g) ==
    IF g.plans = None THEN None ELSE FindFrom(g.plans[1], 1, g.selectedPlan)

\* variant: the date rules are tried before the in_progress rules
getStatusInfo_DateFirst(g, t) ==
    IF g.status = "completed"
    THEN [label |-> "goals.completed", color |-> "success", icon |-> "Check"]
    ELSE IF g.status = "configuration"
    THEN [label |-> "goals.configuration", color |-> "secondary", icon |-> "AlertCircle"]
    ELSE IF diffDays(g, t) < 0
    THEN [label |-> "goals.pastDue", color |-> "error", icon |-> "AlertTriangle"]
    ELSE IF diffDays(g, t) < 30
    THEN [label |-> "goals.urgent", color |-> "warning", icon |-> "Clock"]
    ELSE IF g.status = "in_progress"
    THEN IF PositiveAmount(g.pendingPayment)
         THEN [label |-> "goals.paymentDue", color |-> "warning", icon |-> "CreditCard"]
         ELSE [label |-> "goals.onTrack", color |-> "primary", icon |-> "Check"]
    ELSE [label |-> "goals.onTrack", color |-> "secondary", icon |-> "Check"]

getStatusInfo(g, t) ==
    IF g.status = "completed"
    THEN [label |-> "goals.completed", color |-> "success", icon |-> "Check"]
    ELSE IF g.status = "configuration"
    THEN [label |-> "goals.configuration", color |-> "secondary", icon |-> "AlertCircle"]
    ELSE IF g.status = "in_progress"
    THEN IF PositiveAmount(g.pendingPayment)
         THEN [label |-> "goals.paymentDue", color |-> "warning", icon |-> "CreditCard"]
         ELSE [label |-> "goals.onTrack", color |-> "primary", icon |-> "Check"]
    ELSE IF diffDays(g, t) < 0
    THEN [label |-> "goals.pastDue", color |-> "error", icon |-> "AlertTriangle"]
    ELSE IF diffDays(g, t) < 30
    THEN [label |-> "goals.urgent", color |-> "warning", icon |-> "Clock"]
    ELSE [label |-> "goals.onTrack", color |-> "secondary", icon |-> "Check"]

\* variant: the estimate is shown whatever its sign
savingsText_Unguarded(g, t) ==
    IF g.status = "completed"
    THEN [kind |-> "complete", value |-> 0]
    ELSE IF g.status = "in_progress" /\ selectedPlan(g) # None
    THEN [kind |-> "plan", value |-> selectedPlan(g)[1].monthlyContribution]
    ELSE IF g.status = "configuration" \/ selectedPlan(g) = None
    THEN [kind |-> "estimate", value |-> toFixed0(monthlySavingsNeeded(g, t))]
    ELSE [kind |-> "none", value |-> 0]

\* the text next to the progress percentage
savingsText(g, t) ==
    IF g.status = "completed"
    THEN [kind |-> "complete", value |-> 0]
    ELSE IF g.status = "in_progress" /\ selectedPlan(g) # None
    THEN [kind |-> "plan", value |-> selectedPlan(g)[1].monthlyContribution]
    ELSE IF (g.status = "configuration" \/ selectedPlan(g) = None)
            /\ FracPositive(monthlySavingsNeeded(g, t))
    THEN [kind |-> "estimate", value |-> toFixed0(monthlySavingsNeeded(g, t))]
    ELSE [kind |-> "none", value |-> 0]

\* variant: the button is offered until the goal is completed
showSelectPlan_UntilCompleted(g) == g.status # "completed"

showSelectPlan(g) == g.status = "configuration"

\* variant: the status is not looked at
showMakePayment_AnyStatus(g) == PositiveAmount(g.pendingPayment)

showMakePayment(g) == g.status = "in_progress" /\ PositiveAmount(g.pendingPayment)

\* variant: the pending payment is not looked at
showPlanInfo_IgnoresPayment(g) == g.status = "in_progress" /\ selectedPlan(g) # None

showPlanInfo(g) ==
    /\ g.status = "in_progress"
    /\ selectedPlan(g) # None
    /\ NoPositiveAmount(g.pendingPayment)

showCompletedPlanInfo(g) == g.status = "completed" /\ selectedPlan(g) # None

\* one render pass: the locals it computes and the tree it returns
Render(g, t, planVisible, paymentVisible) ==
    [ diffDays |-> diffDays(g, t),
      monthlySavingsNeeded |-> monthlySavingsNeeded(g, t),
      selectedPlan |-> selectedPlan(g),
      status |-> getStatusInfo(g, t),
      savings |-> savingsText(g, t),
      selectPlanButton |-> showSelectPlan(g),
      paymentButton |-> showMakePayment(g),
      planInfo |-> showPlanInfo(g),
      completedPlanInfo |-> showCompletedPlanInfo(g),
      planModalVisible |-> planVisible,
      paymentModalVisible |-> paymentVisible ]

(***************************************************************************)
(* Handlers                                                                *)
(***************************************************************************)
\* variant: the navigation is not in an else branch
handlePress_AlsoNavigates(g, cb) ==
    (IF cb THEN <<[call |-> "onPress", arg |-> g]>> ELSE <<>>)
    \o <<[call |-> "router.push",
          arg |-> [pathname |-> "/goal-details", params |-> [id |-> g.id]]]>>

\* the calls handlePress makes: the callback if one was supplied, else the
\* navigation to the goal-details screen
handlePress(g, cb) ==
    IF cb
    THEN <<[call |-> "onPress", arg |-> g]>>
    ELSE <<[call |-> "router.push",
            arg |-> [pathname |-> "/goal-details", params |-> [id |-> g.id]]]>>

\* a press on a button inside the card reaches the card's own onPress unless
\* the button's handler stopped the propagation of the event
PropagateToCard(stopped, g, cb) == IF stopped THEN <<>> ELSE handlePress(g, cb)

\* the parent supplies props; the component renders again
SupplyProps(g, cb) ==
    /\ goal' = g
    /\ onPress' = cb
    /\ view' = Render(g, now, isPlanModalVisible, isPaymentModalVisible)
    /\ lastEvent' = "props"
    /\ emitted' = <<>>
    /\ UNCHANGED <<now, isPlanModalVisible, isPaymentModalVisible>>

SetId == \E v \in GoalIds : SupplyProps([goal EXCEPT !.id = v], onPress)

SetTargetDate == \E v \in TargetDates : SupplyProps([goal EXCEPT !.targetDate = v], onPress)

SetAmount == \E v \in Amounts : SupplyProps([goal EXCEPT !.amount = v], onPress)

SetProgress == \E v \in Progresses : SupplyProps([goal EXCEPT !.progress = v], onPress)

SetStatus == \E v \in Statuses : SupplyProps([goal EXCEPT !.status = v], onPress)

SetPendingPayment ==
    \E v \in PendingPayments : SupplyProps([goal EXCEPT !.pendingPayment = v], onPress)

\* the plans the parent supplies next: none, an empty collection, or the
\* current collection with one more plan
NextPlanLists(p) ==
    {None, Some(<<>>)} \cup
    (IF p = None \/ Len(p[1]) >= MaxPlans
     THEN {}
     ELSE { Some(Append(p[1], x)) : x \in Plans })

SetPlans ==
    \E v \in NextPlanLists(goal.plans) : SupplyProps([goal EXCEPT !.plans = v], onPress)

SetSelectedPlan ==
    \E v \in SelectedPlans : SupplyProps([goal EXCEPT !.selectedPlan = v], onPress)

SetOnPress == \E cb \in BOOLEAN : SupplyProps(goal, cb)

\* a later render pass with the same props: new Date() has moved on
Rerender ==
    \E t \in NowTimes :
        /\ t > now
        /\ now' = t
        /\ view' = Render(goal, t, isPlanModalVisible, isPaymentModalVisible)
        /\ lastEvent' = "props"
        /\ emitted' = <<>>
        /\ UNCHANGED <<goal, onPress, isPlanModalVisible, isPaymentModalVisible>>

\* a tap on the card: handlePress sets no state, so nothing renders again
CardTap ==
    /\ emitted' = handlePress(goal, onPress)
    /\ lastEvent' = "cardTap"
    /\ UNCHANGED <<goal, onPress, now, isPlanModalVisible, isPaymentModalVisible, view>>

\* variant: opening the plan modal closes the payment modal
handlePlanSelection_ClosesPayment ==
    /\ view.selectPlanButton
    /\ emitted' = PropagateToCard(TRUE, goal, onPress)
    /\ isPlanModalVisible' = TRUE
    /\ isPaymentModalVisible' = FALSE
    /\ view' = Render(goal, now, TRUE, FALSE)
    /\ lastEvent' = "pressSelectPlan"
    /\ UNCHANGED <<goal, onPress, now>>

\* a press on the 'select a plan' button, which exists only if rendered
handlePlanSelection ==
    /\ view.selectPlanButton
    /\ emitted' = PropagateToCard(TRUE, goal, onPress)
    /\ isPlanModalVisible' = TRUE
    /\ view' = Render(goal, now, TRUE, isPaymentModalVisible)
    /\ lastEvent' = "pressSelectPlan"
    /\ UNCHANGED <<goal, onPress, now, isPaymentModalVisible>>

\* a press on the 'make payment' button, which exists only if rendered
handlePayment ==
    /\ view.paymentButton
    /\ emitted' = PropagateToCard(TRUE, goal, onPress)
    /\ isPaymentModalVisible' = TRUE
    /\ view' = Render(goal, now, isPlanModalVisible, TRUE)
    /\ lastEvent' = "pressMakePayment"
    /\ UNCHANGED <<goal, onPress, now, isPlanModalVisible>>

\* PlanSelectionModal calls its onClose
ClosePlanModal ==
    /\ isPlanModalVisible' = FALSE
    /\ view' = Render(goal, now, FALSE, isPaymentModalVisible)
    /\ lastEvent' = "closePlanModal"
    /\ emitted' = <<>>
    /\ UNCHANGED <<goal, onPress, now, isPaymentModalVisible>>

\* PaymentModal calls its onClose
ClosePaymentModal ==
    /\ isPaymentModalVisible' = FALSE
    /\ view' = Render(goal, now, isPlanModalVisible, FALSE)
    /\ lastEvent' = "closePaymentModal"
    /\ emitted' = <<>>
    /\ UNCHANGED <<goal, onPress, now, isPlanModalVisible>>

(***************************************************************************)
(* Specifications                                                          *)
(***************************************************************************)
Mount(g, cb, t) ==
    /\ goal = g
    /\ onPress = cb
    /\ now = t
    /\ isPlanModalVisible = FALSE
    /\ isPaymentModalVisible = FALSE
    /\ view = Render(g, t, FALSE, FALSE)
    /\ lastEvent = "props"
    /\ emitted = <<>>

\* the component with its handlers, over the goals that differ in what the
\* handlers and the buttons read
Init == \E g \in EventGoals, cb \in BOOLEAN, t \in NowTimes : Mount(g, cb, t)

Next ==
    \/ SetId
    \/ SetStatus
    \/ SetPendingPayment
    \/ SetSelectedPlan
    \/ SetOnPress
    \/ Rerender
    \/ CardTap
    \/ handlePlanSelection
    \/ handlePayment
    \/ ClosePlanModal
    \/ ClosePaymentModal

Spec == Init /\ [][Next]_vars

\* the render pass alone, over every goal of the input domains
InitRender ==
    \E g \in Goals, t \in NowTimes : g.id = "g1" /\ Mount(g, FALSE, t)

NextRender ==
    \/ SetTargetDate
    \/ SetAmount
    \/ SetProgress
    \/ SetStatus
    \/ SetPendingPayment
    \/ SetPlans
    \/ SetSelectedPlan
    \/ Rerender

SpecRender == InitRender /\ [][NextRender]_vars

TypeOK ==
    /\ goal \in Goals
    /\ onPress \in BOOLEAN
    /\ now \in NowTimes
    /\ isPlanModalVisible \in BOOLEAN
    /\ isPaymentModalVisible \in BOOLEAN

(***************************************************************************)
(* Properties                                                              *)
(***************************************************************************)
HasPendingPayment == goal.pendingPayment # None /\ goal.pendingPayment[1] > 0

DateRuled == goal.status \notin {"completed", "configuration", "in_progress"}

\* C1: the status badge is the label and color of the first matching rule:
\* completed, configuration, in_progress with a pending payment, in_progress,
\* days-remaining < 0, days-remaining < 30, otherwise.
C1_StatusPrecedence ==
    LET s == <<view.status.label, view.status.color>>
    IN  CASE goal.status = "completed" -> s = <<"goals.completed", "success">>
          [] goal.status = "configuration" -> s = <<"goals.configuration", "secondary">>
          [] goal.status = "in_progress" /\ HasPendingPayment ->
                 s = <<"goals.paymentDue", "warning">>
          [] goal.status = "in_progress" /\ ~HasPendingPayment ->
                 s = <<"goals.onTrack", "primary">>
          [] DateRuled /\ view.diffDays < 0 -> s = <<"goals.pastDue", "error">>
          [] DateRuled /\ view.diffDays >= 0 /\ view.diffDays < 30 ->
                 s = <<"goals.urgent", "warning">>
          [] OTHER -> s = <<"goals.onTrack", "secondary">>

\* a completed goal with a date ten days past and a payment pending
C1_Witness ==
    /\ goal.status = "completed"
    /\ now - goal.targetDate = 10 * DayTicks
    /\ goal.pendingPayment = Some(100)
    /\ view.status.label = "goals.completed"

\* C2 as stated: outside the three statuses, a target date earlier than the
\* current time by any amount is labelled 'past due'.
C2_PastDueByAnyAmount ==
    (DateRuled /\ goal.targetDate < now) => view.status.label = "goals.pastDue"

\* C2 amended: days-remaining is the ceiling of (targetDate - now) in whole
\* days, and outside the three statuses the label is 'past due' exactly when
\* the target date is at least one whole day before the current time; a
\* target date less than a day in the past is labelled 'urgent'.
C2_PastDueAfterWholeDay ==
    /\ view.diffDays * DayTicks >= goal.targetDate - now
    /\ (view.diffDays - 1) * DayTicks < goal.targetDate - now
    /\ DateRuled =>
         /\ (view.status.label = "goals.pastDue") <=> (now - goal.targetDate >= DayTicks)
         /\ (goal.targetDate < now /\ now - goal.targetDate < DayTicks)
               => view.status.label = "goals.urgent"

\* a date one second short of a whole day in the past
C2_Witness ==
    /\ DateRuled
    /\ now - goal.targetDate = DayTicks - 1
    /\ view.status.label = "goals.urgent"

\* C3: the 'make payment' action is visible if and only if the status is
\* in_progress and pendingPayment > 0.
C3_PaymentButtonIff ==
    view.paymentButton <=> (goal.status = "in_progress" /\ HasPendingPayment)

\* an in_progress goal with a payment of 100 pending shows the button
C3_Witness ==
    /\ goal.status = "in_progress"
    /\ goal.pendingPayment = Some(100)
    /\ view.paymentButton

\* C4: with days-remaining > 0, monthlySavingsNeeded * daysRemaining * 100 =
\* amount * (100 - progress) * 30 (amount 1200, progress 50, 60 days give
\* 300); with days-remaining <= 0 it is exactly 0.
C4_MonthlySavings ==
    LET m == view.monthlySavingsNeeded
    IN  /\ view.diffDays > 0 =>
             m[1] * view.diffDays * 100 = goal.amount * (100 - goal.progress) * 30 * m[2]
        /\ view.diffDays <= 0 => m = <<0, 1>>
        /\ (goal.amount = 1200 /\ goal.progress = 50 /\ view.diffDays = 60) => m = <<300, 1>>

C4_Witness ==
    /\ goal.amount = 1200
    /\ goal.progress = 50
    /\ view.diffDays = 60
    /\ view.monthlySavingsNeeded = <<300, 1>>

\* C5: at most one of the 'select a plan' action, the 'make payment' action,
\* the selected-plan summary and the completed plan summary is shown.
C5_AtMostOneElement ==
    Cardinality({ e \in {"selectPlanButton", "paymentButton", "planInfo", "completedPlanInfo"} :
                    view[e] }) <= 1

\* an in_progress goal with a resolved plan and a payment pending shows the
\* payment action alone
C5_Witness ==
    /\ goal.status = "in_progress"
    /\ view.selectedPlan # None
    /\ goal.pendingPayment = Some(100)
    /\ view.paymentButton
    /\ ~view.planInfo

NoPlanMatches ==
    \/ goal.plans = None
    \/ goal.selectedPlan = None
    \/ \A i \in 1..Len(goal.plans[1]) : Some(goal.plans[1][i].id) # goal.selectedPlan

\* C6: when selectedPlan matches no entry of plans (or plans is absent) the
\* lookup yields no plan and the render is the one of the same goal with
\* selectedPlan unset: no plan summary, no plan contribution.  When several
\* entries share the id the first one is used.
C6_UnmatchedPlanIsNoPlan ==
    /\ NoPlanMatches =>
         /\ view.selectedPlan = None
         /\ view = Render([goal EXCEPT !.selectedPlan = None], now,
                          isPlanModalVisible, isPaymentModalVisible)
         /\ ~view.planInfo
         /\ ~view.completedPlanInfo
         /\ view.savings.kind # "plan"
    /\ ~NoPlanMatches =>
         \E i \in 1..Len(goal.plans[1]) :
             /\ Some(goal.plans[1][i].id) = goal.selectedPlan
             /\ \A j \in 1..(i - 1) : Some(goal.plans[1][j].id) # goal.selectedPlan
             /\ view.selectedPlan = Some(goal.plans[1][i])

\* a selected plan that names no entry of a non-empty collection
C6_Witness ==
    /\ goal.selectedPlan = Some("p2")
    /\ goal.plans = Some(<<[id |-> "p1", monthlyContribution |-> 100]>>)
    /\ goal.status = "in_progress"
    /\ view.selectedPlan = None
    /\ view.savings.kind = "estimate"

ComponentEvents ==
    {"cardTap", "pressSelectPlan", "pressMakePayment", "closePlanModal", "closePaymentModal"}

\* C7: both flags start false; 'select a plan' sets isPlanModalVisible and
\* leaves isPaymentModalVisible alone, 'make payment' the converse, each
\* dismissal clears only its own flag, and no event of the component changes
\* the goal.
C7_FlagsIndependent ==
    /\ ~isPlanModalVisible /\ ~isPaymentModalVisible
    /\ [][ /\ lastEvent' = "pressSelectPlan" =>
                isPlanModalVisible' /\ isPaymentModalVisible' = isPaymentModalVisible
           /\ lastEvent' = "pressMakePayment" =>
                isPaymentModalVisible' /\ isPlanModalVisible' = isPlanModalVisible
           /\ lastEvent' = "closePlanModal" =>
                ~isPlanModalVisible' /\ isPaymentModalVisible' = isPaymentModalVisible
           /\ lastEvent' = "closePaymentModal" =>
                ~isPaymentModalVisible' /\ isPlanModalVisible' = isPlanModalVisible
           /\ lastEvent' = "cardTap" =>
                UNCHANGED <<isPlanModalVisible, isPaymentModalVisible>>
           /\ lastEvent' \in ComponentEvents => UNCHANGED <<goal, onPress>>
         ]_vars

\* the plan modal was opened while the payment modal was open
C7_Witness ==
    /\ lastEvent = "pressSelectPlan"
    /\ isPlanModalVisible
    /\ isPaymentModalVisible

C8_TapOutput ==
    IF onPress
    THEN <<[call |-> "onPress", arg |-> goal]>>
    ELSE <<[call |-> "router.push",
            arg |-> [pathname |-> "/goal-details", params |-> [id |-> goal.id]]]>>

\* C8: a card tap makes exactly one call, the callback with the goal if one
\* was supplied and else one navigation to the goal-detail view with the
\* goal's id; it changes neither flag; a press on either button makes
\* neither call.
C8_OneOutputPerTap ==
    [][ /\ lastEvent' = "cardTap" =>
             /\ emitted' = C8_TapOutput
             /\ Len(emitted') = 1
             /\ UNCHANGED <<isPlanModalVisible, isPaymentModalVisible>>
        /\ lastEvent' \in {"pressSelectPlan", "pressMakePayment"} => emitted' = <<>>
      ]_vars

\* a tap with no callback, while a modal is open
C8_Witness ==
    /\ lastEvent = "cardTap"
    /\ ~onPress
    /\ isPlanModalVisible
    /\ Len(emitted) = 1
    /\ emitted[1].call = "router.push"

\* C9: isPlanModalVisible turns true only in a step taken while the status is
\* configuration, isPaymentModalVisible only while it is in_progress with a
\* positive pending payment; a flag that is true turns false only by the
\* dismissal of its modal, whatever goal the parent supplies.
C9_FlagsOpenOnlyWhenOffered ==
    [][ /\ (~isPlanModalVisible /\ isPlanModalVisible') =>
             goal.status = "configuration" /\ goal' = goal
        /\ (~isPaymentModalVisible /\ isPaymentModalVisible') =>
             goal.status = "in_progress" /\ HasPendingPayment /\ goal' = goal
        /\ (isPlanModalVisible /\ ~isPlanModalVisible') => lastEvent' = "closePlanModal"
        /\ (isPaymentModalVisible /\ ~isPaymentModalVisible') =>
             lastEvent' = "closePaymentModal"
      ]_vars

\* the plan modal is still open under a goal that no longer offers it
C9_Witness ==
    /\ isPlanModalVisible
    /\ goal.status = "completed"
    /\ lastEvent = "props"

Estimate == view.monthlySavingsNeeded

C10_FirstMatch ==
    CASE goal.status = "completed" -> view.savings.kind = "complete"
      [] goal.status = "in_progress" /\ view.selectedPlan # None ->
             view.savings = [kind |-> "plan",
                             value |-> view.selectedPlan[1].monthlyContribution]
      [] goal.status # "completed"
         /\ ~(goal.status = "in_progress" /\ view.selectedPlan # None)
         /\ Estimate[1] > 0
         /\ (goal.status = "configuration" \/ view.selectedPlan = None) ->
             view.savings.kind = "estimate"
      [] OTHER -> view.savings.kind = "none"

\* C10 as stated: the figure is chosen by first match (complete, the plan's
\* contribution, the estimate if strictly positive, nothing), and a displayed
\* estimate is never zero or negative.
C10_DisplayedEstimatePositive ==
    /\ C10_FirstMatch
    /\ view.savings.kind = "estimate" => view.savings.value > 0

\* C10 amended: the figure is chosen by the same first match; the estimate
\* behind a displayed figure is strictly positive, and the figure displayed
\* is that estimate rounded to the nearest whole unit, never negative but 0
\* when the estimate is below one half.
C10_DisplayedEstimateRounded ==
    /\ C10_FirstMatch
    /\ view.savings.kind = "estimate" =>
         /\ Estimate[1] > 0
         /\ view.savings.value >= 0
         /\ 2 * Estimate[2] * view.savings.value <= 2 * Estimate[1] + Estimate[2]
         /\ 2 * Estimate[2] * (view.savings.value + 1) > 2 * Estimate[1] + Estimate[2]
         /\ (view.savings.value = 0) <=> (2 * Estimate[1] < Estimate[2])

\* an estimate of a quarter of a unit is displayed as 0
C10_Witness ==
    /\ view.savings.kind = "estimate"
    /\ Estimate = <<1, 4>>
    /\ view.savings.value = 0

====
